---- MODULE Spec2Model ----
(***************************************************************************)
(* A state-machine model of statquest_xgboost_in_python_heart_disease.py:  *)
(* the script is a straight line of statements over a handful of global    *)
(* names (df, X, y, X_encoded, the train/test parts, clf_xgb).  Every      *)
(* statement that changes one of them is an action; pc is the position in  *)
(* the script.  The library calls are modelled by what they do to the      *)
(* tables they are handed (pandas) or by what they are handed (xgboost,    *)
(* whose trees are not modelled).                                          *)
(***************************************************************************)
EXTENDS Integers, Sequences, FiniteSets, TLC

\* pc: the statement the script is at; file: the lines of the data file;
\* shown: what the cells have displayed; the other variables are the
\* script's own
VARIABLES pc, file, df, X, y, X_encoded, y_not_zero_index,
          X_train, X_test, y_train, y_test, clf_xgb, shown

vars == <<pc, file, df, X, y, X_encoded, y_not_zero_index,
          X_train, X_test, y_train, y_test, clf_xgb, shown>>

(***************************************************************************)
(* Bounds of the model.                                                    *)
(***************************************************************************)
\* rows of the data file
NRows == 3
\* the decimal numbers a field of the file can hold are 0 .. MaxNum
MaxNum == 7

NumRange == 0 .. MaxNum

(***************************************************************************)
(* Values.  A cell is a str or a Python int held in an object column, or   *)
(* an int64, a float64 or a uint8 (the 0/1 of an indicator column) held in *)
(* a column of that dtype.  text is what str() gives for it and num its    *)
(* numeric value (0 for a str).  Decimal numbers are modelled by the whole *)
(* numbers n, written "n.0" as in the data file.                           *)
(***************************************************************************)
FloatText(n) == ToString(n) \o ".0"

Str(s) == [kind |-> "str", text |-> s, num |-> 0]

\* the Python int an assignment puts into an object column
PyInt(n) == [kind |-> "int", text |-> ToString(n), num |-> n]

\* a cell of an int64 column
Int64(n) == [kind |-> "int64", text |-> ToString(n), num |-> n]

PyFloat(n) == [kind |-> "float", text |-> FloatText(n), num |-> n]

UInt8(n) == [kind |-> "uint8", text |-> ToString(n), num |-> n]

IsNumber(c) == c.kind \in {"int", "int64", "float", "uint8"}

\* Python's ==, as pandas applies it cell by cell: a str equals only an equal
\* str, numbers compare by value.
PyEq(a, b) ==
    IF a.kind = "str" \/ b.kind = "str"
    THEN a.kind = b.kind /\ a.text = b.text
    ELSE a.num = b.num

\* the sentinel of the data file
Sentinel == Str("?")

IsIntText(s) == \E n \in NumRange : s = ToString(n)

IsFloatText(s) == \E n \in NumRange : s = FloatText(n)

IsNumericText(s) == IsIntText(s) \/ IsFloatText(s)

ParseNum(s) == CHOOSE n \in NumRange : s \in {ToString(n), FloatText(n)}

(***************************************************************************)
(* Tables.  A data frame is its column names, its index labels and its     *)
(* rows, a row being the cells in column order; a series is its index      *)
(* labels and its values.                                                  *)
(***************************************************************************)
NoTable == [cols |-> <<>>, index |-> <<>>, rows |-> <<>>]

NoSeries == [index |-> <<>>, values |-> <<>>]

len(t) == Len(t.rows)

Positions(s) == 1 .. Len(s)

\* the position of the first column called name
ColPos(t, name) == CHOOSE i \in Positions(t.cols) :
                      /\ t.cols[i] = name
                      /\ \A j \in 1 .. (i - 1) : t.cols[j] # name

HasCol(t, name) == \E i \in Positions(t.cols) : t.cols[i] = name

\* the column with its values in reverse order under the same labels
ColumnReversed(t, name) ==
    [index |-> t.index,
     values |-> [r \in Positions(t.rows) |->
                    t.rows[Len(t.rows) + 1 - r][ColPos(t, name)]]]

\* t[name]: the column as a series
Column(t, name) ==
    [index |-> t.index,
     values |-> [r \in Positions(t.rows) |-> t.rows[r][ColPos(t, name)]]]

\* an assignment that lands one column to the right
SetColumnShifted(t, name, s) ==
    [t EXCEPT !.rows = [r \in Positions(t.rows) |->
                          [t.rows[r] EXCEPT ![ColPos(t, name) + 1] = s.values[r]]]]

\* t[name] = s
SetColumn(t, name, s) ==
    [t EXCEPT !.rows = [r \in Positions(t.rows) |->
                          [t.rows[r] EXCEPT ![ColPos(t, name)] = s.values[r]]]]

\* the dtype pandas reports for a column with these cells: a column that
\* read_csv made object stays object when ints are assigned into it (pandas
\* 1.0 and later), so it is object as soon as one cell is a str or a Python
\* int
DtypeOf(cells) ==
    IF \E i \in Positions(cells) : cells[i].kind \in {"str", "int"} THEN "object"
    ELSE IF \A i \in Positions(cells) : cells[i].kind = "uint8" THEN "uint8"
    ELSE IF \A i \in Positions(cells) : cells[i].kind = "int64" THEN "int64"
    ELSE IF \A i \in Positions(cells) : cells[i].kind = "float" THEN "float64"
    ELSE "object"

\* the dtype of the column at position i, and t.dtypes
dtype(t, i) == DtypeOf([r \in Positions(t.rows) |-> t.rows[r][i]])

dtypes(t) == [i \in Positions(t.cols) |-> dtype(t, i)]

(***************************************************************************)
(* The data file: NRows lines of 14 comma-separated fields, no header.     *)
(***************************************************************************)
columns == <<"age", "sex", "cp", "restbp", "chol", "fbs", "restecg",
             "thalach", "exang", "oldpeak", "slope", "ca", "thal", "hd">>

\* a line of the file, from the fields the pipeline looks at; the other
\* fields are decimal numbers in every line
Line(cp, restecg, slope, ca, thal, hd) ==
    <<"7.0", "1.0", cp, "5.0", "6.0", "0.0", restecg,
      "4.0", "0.0", "2.0", slope, ca, thal, hd>>

\* the records the file is made of: between them they hold every diagnosis
\* 0 .. 4, a sentinel in ca, in thal and in both, and two values of each
\* expanded field
Lines ==
    {Line("1.0", "0.0", "1.0", "0.0", "3.0", "0"),
     Line("1.0", "0.0", "1.0", "3.0", "3.0", "1"),
     Line("1.0", "0.0", "1.0", "?", "3.0", "0"),
     Line("1.0", "0.0", "1.0", "0.0", "7.0", "2"),
     Line("1.0", "0.0", "1.0", "0.0", "?", "3"),
     Line("1.0", "0.0", "1.0", "?", "?", "0"),
     Line("4.0", "2.0", "2.0", "0.0", "3.0", "4")}

\* pd.read_csv(..., header=None): a column whose fields are all integers is
\* int64, one whose fields are all numbers is float64, any other column
\* keeps its fields as str (object); the columns are numbered, the index is
\* 0 .. n-1
ReadField(fields, i) ==
    IF \A r \in Positions(fields) : IsIntText(fields[r])
    THEN Int64(ParseNum(fields[i]))
    ELSE IF \A r \in Positions(fields) : IsNumericText(fields[r])
    THEN PyFloat(ParseNum(fields[i]))
    ELSE Str(fields[i])

read_csv(f) ==
    [cols |-> [i \in Positions(columns) |-> ToString(i - 1)],
     index |-> [r \in Positions(f) |-> r - 1],
     rows |-> [r \in Positions(f) |->
                 [i \in Positions(columns) |->
                    ReadField([q \in Positions(f) |-> f[q][i]], r)]]]

\* a fill that writes to ca whatever column it is asked to fill
FillMissingAlwaysCa(t, col) ==
    [t EXCEPT !.rows = [r \in Positions(t.rows) |->
        IF PyEq(t.rows[r][ColPos(t, "ca")], Sentinel)
        THEN [t.rows[r] EXCEPT ![ColPos(t, "ca")] = PyInt(0)]
        ELSE t.rows[r]]]

\* the other way of dealing with missing data: the rows that hold the
\* sentinel in col are removed from the table
FillMissingDropsRows(t, col) ==
    LET keep == SelectSeq([r \in Positions(t.rows) |-> r],
                          LAMBDA r : ~PyEq(t.rows[r][ColPos(t, col)], Sentinel))
    IN  [cols |-> t.cols,
         index |-> [k \in Positions(keep) |-> t.index[keep[k]]],
         rows |-> [k \in Positions(keep) |-> t.rows[keep[k]]]]

\* df.loc[(df[col] == '?'), col] = 0
FillMissing(t, col) ==
    [t EXCEPT !.rows = [r \in Positions(t.rows) |->
        IF PyEq(t.rows[r][ColPos(t, col)], Sentinel)
        THEN [t.rows[r] EXCEPT ![ColPos(t, col)] = PyInt(0)]
        ELSE t.rows[r]]]

\* t.drop(col, axis=1).copy()
DropColumn(t, col) ==
    LET keep == SelectSeq([i \in Positions(t.cols) |-> i],
                          LAMBDA i : t.cols[i] # col)
    IN  [cols |-> [k \in Positions(keep) |-> t.cols[keep[k]]],
         index |-> t.index,
         rows |-> [r \in Positions(t.rows) |->
                     [k \in Positions(keep) |-> t.rows[r][keep[k]]]]]

(***************************************************************************)
(* pd.get_dummies(X, columns=[...]).  The categories of a column are its   *)
(* distinct values, sorted; when the column holds str next to numbers (a   *)
(* filled column), the numbers come first, sorted, then the strs, sorted.  *)
(* The fields of the file are one-digit numerals and "?", which sort as    *)
(* str the way their SortKey sorts.                                        *)
(***************************************************************************)
\* the cells of s that equal no earlier cell, in order of appearance
Unique(s) ==
    SelectSeq([i \in Positions(s) |->
                 IF \E j \in 1 .. (i - 1) : PyEq(s[j], s[i])
                 THEN [kind |-> "dup", text |-> "", num |-> 0]
                 ELSE s[i]],
              LAMBDA c : c.kind # "dup")

SortKey(c) ==
    IF c.kind # "str" THEN c.num
    ELSE IF IsNumericText(c.text) THEN ParseNum(c.text)
    ELSE MaxNum + 1

\* a comes before b: numbers before strs, each kind by its value
ComesBefore(a, b) ==
    \/ a.kind # "str" /\ b.kind = "str"
    \/ (a.kind = "str") = (b.kind = "str") /\ SortKey(a) < SortKey(b)

Sorted(s) ==
    LET before(i) == Cardinality({j \in Positions(s) :
                        \/ ComesBefore(s[j], s[i])
                        \/ ~ComesBefore(s[i], s[j]) /\ j < i})
    IN  [k \in Positions(s) |-> s[CHOOSE i \in Positions(s) : before(i) = k - 1]]

Categories(s) == Sorted(Unique(s))

\* the expansion with drop_first=True: the first category gets no column
DummiesDropFirst(t, col) ==
    LET p == ColPos(t, col)
        cats == Tail(Categories([r \in Positions(t.rows) |-> t.rows[r][p]]))
    IN  [names |-> [k \in Positions(cats) |-> col \o "_" \o cats[k].text],
         rows |-> [r \in Positions(t.rows) |->
                     [k \in Positions(cats) |->
                        UInt8(IF PyEq(t.rows[r][p], cats[k]) THEN 1 ELSE 0)]]]

\* the indicator columns of column col of t: their names and, row by row,
\* their uint8 cells
Dummies(t, col) ==
    LET p == ColPos(t, col)
        cats == Categories([r \in Positions(t.rows) |-> t.rows[r][p]])
    IN  [names |-> [k \in Positions(cats) |-> col \o "_" \o cats[k].text],
         rows |-> [r \in Positions(t.rows) |->
                     [k \in Positions(cats) |->
                        UInt8(IF PyEq(t.rows[r][p], cats[k]) THEN 1 ELSE 0)]]]

RECURSIVE DropColumns(_, _)
DropColumns(t, cs) ==
    IF cs = <<>> THEN t ELSE DropColumns(DropColumn(t, Head(cs)), Tail(cs))

\* the indicator columns of the columns cs, side by side in the order of cs
RECURSIVE AllDummies(_, _)
AllDummies(t, cs) ==
    IF cs = <<>>
    THEN [names |-> <<>>, rows |-> [r \in Positions(t.rows) |-> <<>>]]
    ELSE LET d == Dummies(t, Head(cs))
             rest == AllDummies(t, Tail(cs))
         IN  [names |-> d.names \o rest.names,
              rows |-> [r \in Positions(t.rows) |-> d.rows[r] \o rest.rows[r]]]

\* the columns that are not expanded come first, in their order, then the
\* indicator columns of each expanded column, in the order of cs
get_dummies(t, cs) ==
    LET rest == DropColumns(t, cs)
        d == AllDummies(t, cs)
    IN  [cols |-> rest.cols \o d.names,
         index |-> t.index,
         rows |-> [r \in Positions(t.rows) |-> rest.rows[r] \o d.rows[r]]]

\* the four columns the script expands
dummy_columns == <<"cp", "restecg", "slope", "thal">>

(***************************************************************************)
(* The target: y > 0 is a boolean mask (comparing a str with 0 raises      *)
(* TypeError), y[mask] = 1 writes the int 1 where the mask is True.        *)
(***************************************************************************)
CanCompare(s) == \A i \in Positions(s.values) : IsNumber(s.values[i])

\* y >= 0
GreaterOrEqualZero(s) == [i \in Positions(s.values) |-> s.values[i].num >= 0]

GreaterThanZero(s) == [i \in Positions(s.values) |-> s.values[i].num > 0]

\* what a series holds once v has been assigned into it: an int64 series
\* takes a Python int as an int64
Stored(s, v) ==
    IF v.kind = "int" /\ DtypeOf(s.values) = "int64" THEN Int64(v.num) ELSE v

\* the mask applied one position late
SetWhereShifted(s, mask, v) ==
    [s EXCEPT !.values = [i \in Positions(s.values) |->
                            IF i > 1 /\ mask[i - 1]
                            THEN Stored(s, v) ELSE s.values[i]]]

SetWhere(s, mask, v) ==
    [s EXCEPT !.values = [i \in Positions(s.values) |->
                            IF mask[i] THEN Stored(s, v) ELSE s.values[i]]]

\* the two statements together: y[y > 0] = 1
Binarize(s) == SetWhere(s, GreaterThanZero(s), PyInt(1))

(***************************************************************************)
(* pd.to_numeric(series): a str is parsed (ValueError when it is not a     *)
(* number), and the result has one dtype: float64 as soon as one value is  *)
(* a float.                                                                *)
(***************************************************************************)
CanConvert(s) ==
    \A i \in Positions(s.values) :
        IsNumber(s.values[i]) \/ IsNumericText(s.values[i].text)

ParseCell(c) ==
    IF c.kind = "int" THEN Int64(c.num)
    ELSE IF c.kind # "str" THEN c
    ELSE IF IsIntText(c.text) THEN Int64(ParseNum(c.text))
    ELSE PyFloat(ParseNum(c.text))

\* a conversion that hands the series back as it is
to_numeric_unchanged(s) == s

to_numeric(s) ==
    LET parsed == [i \in Positions(s.values) |-> ParseCell(s.values[i])]
        anyFloat == \E i \in Positions(parsed) : parsed[i].kind = "float"
    IN  [s EXCEPT !.values = [i \in Positions(parsed) |->
            IF anyFloat THEN PyFloat(parsed[i].num) ELSE parsed[i]]]


(***************************************************************************)
(* train_test_split(X_encoded, y, random_state=42): a quarter of the rows, *)
(* rounded up, is the test part.  The rows are dealt by the permutation    *)
(* that numpy's RandomState(42) gives for their number: the test part is   *)
(* its first n_test entries, the training part the rest, in that order.    *)
(***************************************************************************)
\* RandomState(42).permutation(n), for the n the model reaches
Permutation(n) ==
    CASE n = 2 -> <<1, 0>>
      [] n = 3 -> <<0, 1, 2>>
      [] n = 4 -> <<1, 3, 0, 2>>
      [] n = 5 -> <<1, 4, 2, 0, 3>>
      [] n = 6 -> <<0, 1, 5, 2, 4, 3>>
      [] n = 7 -> <<0, 1, 5, 2, 4, 3, 6>>
      [] n = 8 -> <<1, 5, 0, 7, 2, 4, 3, 6>>
      [] n = 9 -> <<7, 1, 5, 0, 8, 2, 4, 3, 6>>
      [] n = 10 -> <<8, 1, 5, 0, 7, 2, 9, 4, 3, 6>>
      [] OTHER -> [i \in 1 .. n |-> i - 1]

\* ceil(0.25 * n)
TestSize(n) == (n + 3) \div 4

\* t.iloc[ind]: the rows at the (0-based) positions ind, in that order
TakeRows(t, ind) ==
    [cols |-> t.cols,
     index |-> [k \in Positions(ind) |-> t.index[ind[k] + 1]],
     rows |-> [k \in Positions(ind) |-> t.rows[ind[k] + 1]]]

TakeValues(s, ind) ==
    [index |-> [k \in Positions(ind) |-> s.index[ind[k] + 1]],
     values |-> [k \in Positions(ind) |-> s.values[ind[k] + 1]]]

ind_test(n) == SubSeq(Permutation(n), 1, TestSize(n))

\* a training part that takes every row
ind_train_every_row(n) == Permutation(n)

ind_train(n) == SubSeq(Permutation(n), TestSize(n) + 1, n)

(***************************************************************************)
(* xgb.XGBClassifier with keywords kw.  A keyword it knows sets that       *)
(* hyperparameter; any other keyword is kept aside in kwargs and sets no   *)
(* hyperparameter of the classifier.  NotGiven stands for a hyperparameter *)
(* left at the library's default.  gamma and learning_rate are counted in  *)
(* hundredths (0.25 is 25), the others in units.                           *)
(***************************************************************************)
NotGiven == -1

Hyperparameters ==
    {"seed", "gamma", "learning_rate", "max_depth", "n_estimators", "reg_lambda"}

Given(kw, name) == IF name \in DOMAIN kw THEN kw[name] ELSE NotGiven

XGBClassifier(objective, kw) ==
    [objective |-> objective,
     seed |-> Given(kw, "seed"),
     gamma |-> Given(kw, "gamma"),
     learning_rate |-> Given(kw, "learning_rate"),
     max_depth |-> Given(kw, "max_depth"),
     n_estimators |-> Given(kw, "n_estimators"),
     reg_lambda |-> Given(kw, "reg_lambda"),
     kwargs |-> {<<k, kw[k]>> : k \in DOMAIN kw \ Hyperparameters},
     fitted |-> FALSE,
     fit_index |-> <<>>]

\* the keywords of the three classifiers the script builds
preliminary_kw == [seed |-> 42]

optimized_kw ==
    [seed |-> 42, gamma |-> 100, learn_rate |-> 10, max_depth |-> 3,
     n_estimators |-> 200, reg_lambda |-> 10]

\* the keywords of the optimized classifier once more: the whole ensemble
first_tree_kw_all_trees ==
    [seed |-> 42, gamma |-> 100, learn_rate |-> 10, max_depth |-> 3,
     n_estimators |-> 200, reg_lambda |-> 10]

first_tree_kw ==
    [seed |-> 42, gamma |-> 100, learn_rate |-> 10, max_depth |-> 3,
     n_estimators |-> 1, reg_lambda |-> 10]

\* a fit that takes any data frame
CanFitAnything(t) == TRUE

\* fit refuses a data frame with a column that is not int, float or bool
CanFit(t) == \A i \in Positions(t.cols) : dtype(t, i) # "object"

\* clf.fit(X_train, y_train): the trees are xgboost's; the model keeps which
\* rows the classifier was fitted on
fit(clf, t, s) == [clf EXCEPT !.fitted = TRUE, !.fit_index = t.index]

\* what a cell of the notebook displays: the classifier it was handed and
\* the rows it was handed
Display(what, clf, t) == [what |-> what, clf |-> clf, index |-> t.index]

(***************************************************************************)
(* The grid of the search of lines 482-501, which the script keeps as a    *)
(* comment (it "takes a few minutes to run") and whose result it writes    *)
(* down in line 504.  The configurations of param_grid are numbered in the *)
(* order of ParameterGrid: the keys sorted by name, the last key changing  *)
(* fastest.  gamma and learning_rate are counted in hundredths.            *)
(***************************************************************************)
\* range(start, stop, step)
range(start, stop, step) ==
    [i \in 1 .. ((stop - start + step - 1) \div step) |-> start + (i - 1) * step]

param_grid ==
    [max_depth |-> <<3, 4, 5, 6, 7, 8>>,
     n_estimators |-> range(50, 250, 50),
     learning_rate |-> <<10, 1, 5>>,
     gamma |-> <<0, 25, 50, 100>>,
     reg_lambda |-> <<0, 1, 10, 100>>]

\* the keys of param_grid, sorted
grid_keys == <<"gamma", "learning_rate", "max_depth", "n_estimators", "reg_lambda">>

RECURSIVE Product(_, _)
Product(k, n) == IF k > n THEN 1 ELSE Len(param_grid[grid_keys[k]]) * Product(k + 1, n)

GridSize == Product(1, Len(grid_keys))

\* configuration number c (from 0) of ParameterGrid(param_grid)
Candidate(c) ==
    [k \in DOMAIN param_grid |->
        LET i == CHOOSE j \in Positions(grid_keys) : grid_keys[j] = k
        IN  param_grid[k][((c \div Product(i + 1, Len(grid_keys)))
                              % Len(param_grid[k])) + 1]]

(***************************************************************************)
(* The script, statement by statement.                                     *)
(***************************************************************************)
Init ==
    /\ pc = "read_csv"
    /\ file \in [1 .. NRows -> Lines]
    /\ df = NoTable
    /\ X = NoTable
    /\ y = NoSeries
    /\ X_encoded = NoTable
    /\ y_not_zero_index = <<>>
    /\ X_train = NoTable
    /\ X_test = NoTable
    /\ y_train = NoSeries
    /\ y_test = NoSeries
    /\ clf_xgb = <<>>
    /\ shown = <<>>

LoadData ==
    /\ pc = "read_csv"
    /\ df' = read_csv(file)
    /\ pc' = "name_columns"
    /\ UNCHANGED <<file, X, y, X_encoded, y_not_zero_index, X_train, X_test,
                   y_train, y_test, clf_xgb, shown>>

NameColumns ==
    /\ pc = "name_columns"
    /\ df' = [df EXCEPT !.cols = columns]
    /\ pc' = "fill_ca"
    /\ UNCHANGED <<file, X, y, X_encoded, y_not_zero_index, X_train, X_test,
                   y_train, y_test, clf_xgb, shown>>

FillCa ==
    /\ pc = "fill_ca"
    /\ df' = FillMissing(df, "ca")
    /\ pc' = "fill_thal"
    /\ UNCHANGED <<file, X, y, X_encoded, y_not_zero_index, X_train, X_test,
                   y_train, y_test, clf_xgb, shown>>

FillThal ==
    /\ pc = "fill_thal"
    /\ df' = FillMissing(df, "thal")
    /\ pc' = "make_X"
    /\ UNCHANGED <<file, X, y, X_encoded, y_not_zero_index, X_train, X_test,
                   y_train, y_test, clf_xgb, shown>>

\* X = df.drop('hd', axis=1).copy()
MakeX ==
    /\ pc = "make_X"
    /\ X' = DropColumn(df, "hd")
    /\ pc' = "make_y"
    /\ UNCHANGED <<file, df, y, X_encoded, y_not_zero_index, X_train, X_test,
                   y_train, y_test, clf_xgb, shown>>

\* y = df['hd'].copy()
MakeY ==
    /\ pc = "make_y"
    /\ y' = Column(df, "hd")
    /\ pc' = "get_dummies"
    /\ UNCHANGED <<file, df, X, X_encoded, y_not_zero_index, X_train, X_test,
                   y_train, y_test, clf_xgb, shown>>

\* the expansion followed at once by the coercion of ca
OneHotEncodeThenCoerce ==
    /\ pc = "get_dummies"
    /\ X_encoded' = get_dummies(X, dummy_columns)
    /\ pc' = "to_numeric"
    /\ UNCHANGED <<file, df, X, y, y_not_zero_index, X_train, X_test,
                   y_train, y_test, clf_xgb, shown>>

\* X_encoded = pd.get_dummies(X, columns=['cp', 'restecg', 'slope', 'thal'])
OneHotEncode ==
    /\ pc = "get_dummies"
    /\ X_encoded' = get_dummies(X, dummy_columns)
    /\ pc' = "y_not_zero"
    /\ UNCHANGED <<file, df, X, y, y_not_zero_index, X_train, X_test,
                   y_train, y_test, clf_xgb, shown>>

\* y_not_zero_index = y > 0
CompareTarget ==
    /\ pc = "y_not_zero"
    /\ IF CanCompare(y)
       THEN /\ y_not_zero_index' = GreaterThanZero(y)
            /\ pc' = "binarize"
       ELSE /\ y_not_zero_index' = y_not_zero_index
            /\ pc' = "TypeError"
    /\ UNCHANGED <<file, df, X, y, X_encoded, X_train, X_test,
                   y_train, y_test, clf_xgb, shown>>

\* y[y_not_zero_index] = 1
BinarizeTarget ==
    /\ pc = "binarize"
    /\ y' = SetWhere(y, y_not_zero_index, PyInt(1))
    /\ pc' = "to_numeric"
    /\ UNCHANGED <<file, df, X, X_encoded, y_not_zero_index, X_train, X_test,
                   y_train, y_test, clf_xgb, shown>>

\* X_encoded['ca'] = pd.to_numeric(X_encoded['ca'])
CoerceCa ==
    /\ pc = "to_numeric"
    /\ IF CanConvert(Column(X_encoded, "ca"))
       THEN /\ X_encoded' = SetColumn(X_encoded, "ca",
                                      to_numeric(Column(X_encoded, "ca")))
            /\ pc' = "split"
       ELSE /\ X_encoded' = X_encoded
            /\ pc' = "ValueError"
    /\ UNCHANGED <<file, df, X, y, y_not_zero_index, X_train, X_test,
                   y_train, y_test, clf_xgb, shown>>

\* X_train, X_test, y_train, y_test =
\*     train_test_split(X_encoded, y, random_state=42)
SplitTrainTest ==
    /\ pc = "split"
    /\ IF len(X_encoded) > TestSize(len(X_encoded))
       THEN /\ X_train' = TakeRows(X_encoded, ind_train(len(X_encoded)))
            /\ X_test' = TakeRows(X_encoded, ind_test(len(X_encoded)))
            /\ y_train' = TakeValues(y, ind_train(len(X_encoded)))
            /\ y_test' = TakeValues(y, ind_test(len(X_encoded)))
            /\ pc' = "preliminary"
       ELSE /\ UNCHANGED <<X_train, X_test, y_train, y_test>>
            /\ pc' = "ValueError"
    /\ UNCHANGED <<file, df, X, y, X_encoded, y_not_zero_index,
                   clf_xgb, shown>>

\* clf_xgb = xgb.XGBClassifier(...): the statement at pc builds the
\* classifier with the keywords kw
NewClassifier(at, kw, then) ==
    /\ pc = at
    /\ clf_xgb' = XGBClassifier("binary:logistic", kw)
    /\ pc' = then
    /\ UNCHANGED <<file, df, X, y, X_encoded, y_not_zero_index, X_train,
                   X_test, y_train, y_test, shown>>

\* clf_xgb.fit(X_train, y_train)
FitClassifier(at, then) ==
    /\ pc = at
    /\ IF CanFit(X_train)
       THEN /\ clf_xgb' = fit(clf_xgb, X_train, y_train)
            /\ pc' = then
       ELSE /\ clf_xgb' = clf_xgb
            /\ pc' = "ValueError"
    /\ UNCHANGED <<file, df, X, y, X_encoded, y_not_zero_index, X_train,
                   X_test, y_train, y_test, shown>>

\* a statement that only displays: plot_confusion_matrix(clf_xgb, X_test,
\* y_test, ...), the importance scores of the booster, xgb.to_graphviz
Show(at, what, t, then) ==
    /\ pc = at
    /\ shown' = Append(shown, Display(what, clf_xgb, t))
    /\ pc' = then
    /\ UNCHANGED <<file, df, X, y, X_encoded, y_not_zero_index, X_train,
                   X_test, y_train, y_test, clf_xgb>>

NewPreliminary == NewClassifier("preliminary", preliminary_kw, "preliminary_fit")

FitPreliminary == FitClassifier("preliminary_fit", "preliminary_matrix")

ShowPreliminaryMatrix ==
    Show("preliminary_matrix", "confusion_matrix", X_test, "optimized")

NewOptimized == NewClassifier("optimized", optimized_kw, "optimized_fit")

FitOptimized == FitClassifier("optimized_fit", "optimized_matrix")

ShowOptimizedMatrix ==
    Show("optimized_matrix", "confusion_matrix", X_test, "first_tree")

NewFirstTree == NewClassifier("first_tree", first_tree_kw, "first_tree_fit")

FitFirstTree == FitClassifier("first_tree_fit", "importance")

ShowImportance == Show("importance", "get_score", X_train, "to_graphviz")

ShowTree == Show("to_graphviz", "to_graphviz", X_train, "done")

Next ==
    \/ LoadData \/ NameColumns \/ FillCa \/ FillThal
    \/ MakeX \/ MakeY \/ OneHotEncode \/ CompareTarget \/ BinarizeTarget
    \/ CoerceCa \/ SplitTrainTest
    \/ NewPreliminary \/ FitPreliminary \/ ShowPreliminaryMatrix
    \/ NewOptimized \/ FitOptimized \/ ShowOptimizedMatrix
    \/ NewFirstTree \/ FitFirstTree \/ ShowImportance \/ ShowTree

Spec == Init /\ [][Next]_vars

(***************************************************************************)
(* Where the script is.  Past(l) says that the statement labelled l has    *)
(* been executed in a run that has not stopped with an error.              *)
(***************************************************************************)
Script ==
    <<"read_csv", "name_columns", "fill_ca", "fill_thal", "make_X", "make_y",
      "get_dummies", "y_not_zero", "binarize", "to_numeric", "split",
      "preliminary", "preliminary_fit", "preliminary_matrix",
      "optimized", "optimized_fit", "optimized_matrix",
      "first_tree", "first_tree_fit", "importance", "to_graphviz", "done">>

Place(l) == CHOOSE i \in Positions(Script) : Script[i] = l

Past(l) == (\E i \in Positions(Script) : Script[i] = pc) /\ Place(pc) > Place(l)

Rows == 1 .. Len(file)

\* what the file holds in row r for the column called name
Field(r, name) == file[r][CHOOSE i \in Positions(columns) : columns[i] = name]

Cell(t, r, name) == t.rows[r][ColPos(t, name)]

(***************************************************************************)
(* C1: once both missing-value statements have run, no row of df holds the *)
(* sentinel "?" in ca or in thal, and every cell of these two columns that *)
(* held "?" in the file holds the int 0.                                   *)
(***************************************************************************)
C1_NoSentinelAfterFill ==
    Past("fill_thal") =>
        \A r \in Rows : \A c \in {"ca", "thal"} :
            /\ ~PyEq(Cell(df, r, c), Sentinel)
            /\ Cell(df, r, c).text # "?"
            /\ Field(r, c) = "?" => Cell(df, r, c) = PyInt(0)

C1_Witness ==
    /\ pc = "make_X"
    /\ \E r \in Rows : Field(r, "ca") = "?"
    /\ \E r \in Rows : Field(r, "thal") = "?" /\ Field(r, "ca") # "?"

(***************************************************************************)
(* C2: df after loading and after the missing-value statements, X, y,      *)
(* X_encoded after the one-hot expansion and after the numeric coercion    *)
(* all have as many rows as the file has lines.                            *)
(***************************************************************************)
C2_RowCountKept ==
    /\ Past("read_csv") => len(df) = Len(file)
    /\ Past("make_X") => len(X) = Len(file)
    /\ Past("make_y") => Len(y.values) = Len(file)
    /\ Past("get_dummies") => len(X_encoded) = Len(file)

C2_Witness ==
    /\ pc = "split"
    /\ len(X_encoded) = NRows
    /\ Len(y.values) = NRows
    /\ \E r \in Rows : Field(r, "ca") = "?"

(***************************************************************************)
(* C3: in X_encoded, for each of cp, restecg, slope and thal, the          *)
(* indicator columns of that column are as many as the distinct values the *)
(* column has in df after the fill, and every row has 1 in exactly one of  *)
(* them and 0 in the others; a row whose thal was "?" has its 1 in thal_0. *)
(***************************************************************************)
\* the positions of the indicator columns of column c: those named c_v for
\* a value v of the column
Indicators(c) ==
    LET p == ColPos(df, c)
        names == {c \o "_" \o df.rows[r][p].text : r \in Rows}
    IN  {i \in Positions(X_encoded.cols) : X_encoded.cols[i] \in names}

C3_ExactlyOneIndicator ==
    Past("get_dummies") =>
        /\ \A c \in {"cp", "restecg", "slope", "thal"} :
            LET group == Indicators(c)
            IN  /\ Cardinality(group)
                      = Cardinality({Cell(df, r, c) : r \in Rows})
                /\ \A r \in Rows :
                    /\ Cardinality({i \in group :
                                      X_encoded.rows[r][i] = UInt8(1)}) = 1
                    /\ \A i \in group :
                          X_encoded.rows[r][i] \in {UInt8(0), UInt8(1)}
        /\ \A r \in Rows :
              Field(r, "thal") = "?" =>
                  /\ HasCol(X_encoded, "thal_0")
                  /\ Cell(X_encoded, r, "thal_0") = UInt8(1)

C3_Witness ==
    /\ Past("get_dummies")
    /\ Cardinality(Indicators("thal")) = 3
    /\ Cardinality(Indicators("cp")) = 2
    /\ \E r \in Rows : Field(r, "thal") = "?"

(***************************************************************************)
(* C4: after the binarization, element i of y is 0 where the file's        *)
(* diagnosis of row i is 0 and 1 where it is 1, 2, 3 or 4; so every        *)
(* element of y is 0 or 1.                                                 *)
(***************************************************************************)
C4_BinarizeMapsPositiveToOne ==
    Past("binarize") =>
        \A r \in Rows :
            /\ y.index[r] = r - 1
            /\ Field(r, "hd") = "0" => y.values[r].num = 0
            /\ Field(r, "hd") \in {"1", "2", "3", "4"} => y.values[r].num = 1
            /\ y.values[r].num \in {0, 1}

C4_Witness ==
    /\ pc = "to_numeric"
    /\ \E r \in Rows : Field(r, "hd") = "0"
    /\ \E r \in Rows : Field(r, "hd") = "1"
    /\ \E r \in Rows : Field(r, "hd") = "4"

(***************************************************************************)
(* C5: binarizing the binarized y again changes nothing.                   *)
(***************************************************************************)
C5_BinarizeIdempotent == Past("binarize") => Binarize(y) = y

C5_Witness ==
    /\ pc = "to_numeric"
    /\ \E r \in Rows : Field(r, "hd") = "3"
    /\ \E r \in Rows : Field(r, "hd") = "2"
    /\ \E r \in Rows : y.values[r].num = 0

(***************************************************************************)
(* C8: the optimized classifier, once fitted, has the configuration line   *)
(* 504 reports for the search, each value under the name param_grid has    *)
(* for it: gamma 1, learning rate 0.1, max_depth 3, n_estimators 200,      *)
(* reg_lambda 100, and was given no keyword the classifier does not know.  *)
(***************************************************************************)
\* the search result as line 504 states it (its learn_rate is the grid's
\* learning_rate)
documented_params ==
    [gamma |-> 100, learning_rate |-> 10, max_depth |-> 3,
     n_estimators |-> 200, reg_lambda |-> 100]

C8_OptimizedUsesDocumentedParams ==
    pc \in {"optimized_matrix", "first_tree"} =>
        /\ clf_xgb.fitted
        /\ \A k \in DOMAIN documented_params : clf_xgb[k] = documented_params[k]
        /\ clf_xgb.kwargs = {}
        /\ documented_params \in {Candidate(c) : c \in 0 .. (GridSize - 1)}

(***************************************************************************)
(* C11: once the loader has made df (read and named), a statement changes  *)
(* df only if it is one of the two missing-value statements, y only if it  *)
(* creates y or binarizes it, X only if it creates X, X_encoded only if it *)
(* creates it, and the train and test parts only if it is the split.       *)
(***************************************************************************)
C11_OnlyFillAndBinarizeInPlace ==
    [][/\ df' # df => pc \in {"read_csv", "name_columns", "fill_ca", "fill_thal"}
       /\ X' # X => pc = "make_X"
       /\ y' # y => pc \in {"make_y", "binarize"}
       /\ X_encoded' # X_encoded => pc = "get_dummies"
       /\ <<X_train, X_test, y_train, y_test>>'
             # <<X_train, X_test, y_train, y_test>> => pc = "split"]_vars

\* the number a cell stands for
NumValue(c) == IF c.kind = "str" THEN ParseNum(c.text) ELSE c.num

(***************************************************************************)
(* C11, amended: the same, except that X_encoded is also changed, in       *)
(* place, by the numeric coercion of ca; that statement changes no column  *)
(* name, no index label and no cell outside ca, and every cell of ca       *)
(* stands for the same number before and after.                            *)
(***************************************************************************)
C11_InPlaceFillBinarizeAndCoercion ==
    [][/\ df' # df => pc \in {"read_csv", "name_columns", "fill_ca", "fill_thal"}
       /\ X' # X => pc = "make_X"
       /\ y' # y => pc \in {"make_y", "binarize"}
       /\ X_encoded' # X_encoded =>
             \/ pc = "get_dummies"
             \/ /\ pc = "to_numeric"
                /\ X_encoded'.cols = X_encoded.cols
                /\ X_encoded'.index = X_encoded.index
                /\ \A r \in Positions(X_encoded.rows) :
                      \A i \in Positions(X_encoded.cols) :
                         IF i = ColPos(X_encoded, "ca")
                         THEN /\ X_encoded'.rows[r][i].kind # "str"
                              /\ X_encoded'.rows[r][i].num
                                    = NumValue(X_encoded.rows[r][i])
                         ELSE X_encoded'.rows[r][i] = X_encoded.rows[r][i]
       /\ <<X_train, X_test, y_train, y_test>>'
             # <<X_train, X_test, y_train, y_test>> => pc = "split"]_vars

C11_Witness ==
    /\ pc = "split"
    /\ X_encoded # get_dummies(X, dummy_columns)
    /\ y # Column(df, "hd")
    /\ X = DropColumn(df, "hd")
    /\ \E r \in Rows : Field(r, "ca") = "?"

(***************************************************************************)
(* C12: at the end of the script, the classifier whose tree 0 was drawn is *)
(* the fitted classifier whose confusion matrix was displayed last: it was *)
(* not built or fitted again in between.                                   *)
(***************************************************************************)
\* the last thing displayed of the kind what
LastShown(what) ==
    shown[CHOOSE i \in Positions(shown) :
             /\ shown[i].what = what
             /\ \A j \in Positions(shown) : j > i => shown[j].what # what]

C12_TreeOfTheEvaluatedModel ==
    pc = "done" =>
        /\ LastShown("to_graphviz").clf.fitted
        /\ LastShown("to_graphviz").clf = LastShown("confusion_matrix").clf

(***************************************************************************)
(* C12, amended: a display statement leaves the classifier as it was; the  *)
(* classifier whose tree 0 is drawn is not the one of the last confusion   *)
(* matrix but one built after it with the same keywords except             *)
(* n_estimators = 1 and fitted on the same training rows.                  *)
(***************************************************************************)
C12_TreeOfTheRefittedSingleTree ==
    /\ pc \in {"optimized", "first_tree", "to_graphviz", "done"} =>
          shown[Len(shown)].clf = clf_xgb
    /\ pc = "done" =>
          LET cm == LastShown("confusion_matrix").clf
              tree == LastShown("to_graphviz").clf
          IN  /\ cm.fitted /\ tree.fitted
              /\ cm.n_estimators = 200
              /\ tree.n_estimators = 1
              /\ tree = [cm EXCEPT !.n_estimators = 1]
              /\ tree.fit_index = X_train.index
              /\ LastShown("get_score").clf = tree

C12_Witness ==
    /\ pc = "done"
    /\ Len(shown) = 4
    /\ shown[2].what = "confusion_matrix" /\ shown[2].clf.n_estimators = 200
    /\ shown[4].what = "to_graphviz" /\ shown[4].clf.n_estimators = 1

(***************************************************************************)
(* C13: the formatting runs in the order: X and y are separated, the four  *)
(* columns are expanded, ca is made numeric, the target is binarized.  So  *)
(* the expanded table exists only once X and y do, the coercion has run    *)
(* only once the expanded table exists, and the mask of the binarization   *)
(* has been computed only once the coercion has run.                       *)
(***************************************************************************)
C13_CoercionBeforeBinarization ==
    /\ X_encoded # NoTable => X # NoTable /\ y # NoSeries
    /\ Past("to_numeric") => X_encoded # NoTable
    /\ y_not_zero_index # <<>> => Past("to_numeric")

(***************************************************************************)
(* C13, amended: the order is: X and y are separated, the four columns are *)
(* expanded, the target is binarized, ca is made numeric.  When the        *)
(* coercion is about to run, y is already the binarized diagnosis and      *)
(* X_encoded is still the expansion as get_dummies made it.                *)
(***************************************************************************)
C13_BinarizationBeforeCoercion ==
    /\ X_encoded # NoTable => X # NoTable /\ y # NoSeries
    /\ y_not_zero_index # <<>> => X_encoded # NoTable
    /\ pc = "to_numeric" =>
          /\ y_not_zero_index = GreaterThanZero(Column(df, "hd"))
          /\ y = Binarize(Column(df, "hd"))
          /\ X_encoded = get_dummies(X, dummy_columns)
    /\ Past("to_numeric") =>
          /\ y = Binarize(Column(df, "hd"))
          /\ X_encoded = SetColumn(get_dummies(X, dummy_columns), "ca",
                                   to_numeric(Column(X, "ca")))

C13_Witness ==
    /\ pc = "split"
    /\ y # Column(df, "hd")
    /\ X_encoded # get_dummies(X, dummy_columns)
    /\ \E r \in Rows : Field(r, "hd") = "2"

(***************************************************************************)
(* The script on a file that has the sentinel in a column the missing-     *)
(* value statements do not look at.  The statements are those of Spec;     *)
(* only the files differ.                                                  *)
(***************************************************************************)
\* a record with "?" in column c
StrayLine(c) ==
    [i \in Positions(columns) |->
        IF columns[i] = c THEN "?"
        ELSE Line("1.0", "0.0", "1.0", "0.0", "3.0", "1")[i]]

\* the columns other than ca and thal
OtherColumns == {columns[i] : i \in Positions(columns)} \ {"ca", "thal"}

\* the columns the files of this specification have the sentinel in: the
\* target, the three expanded columns, and the first and the last of the
\* eight columns that are handed on as they are
StrayColumns == {"age", "oldpeak", "cp", "restecg", "slope", "hd"}

StrayLines == {StrayLine(c) : c \in StrayColumns}

PlainLines ==
    {Line("1.0", "0.0", "1.0", "0.0", "3.0", "0"),
     Line("4.0", "2.0", "2.0", "?", "7.0", "2"),
     Line("2.0", "1.0", "3.0", "2.0", "?", "0")}

InitStray ==
    /\ pc = "read_csv"
    /\ file \in [1 .. NRows -> PlainLines \cup StrayLines]
    /\ df = NoTable
    /\ X = NoTable
    /\ y = NoSeries
    /\ X_encoded = NoTable
    /\ y_not_zero_index = <<>>
    /\ X_train = NoTable
    /\ X_test = NoTable
    /\ y_train = NoSeries
    /\ y_test = NoSeries
    /\ clf_xgb = <<>>
    /\ shown = <<>>

SpecStray == InitStray /\ [][Next]_vars

\* column c of the file holds the sentinel
Stray(c) == \E r \in Rows : Field(r, c) = "?"

\* a classifier has been fitted
Fitted == clf_xgb # <<>> /\ clf_xgb.fitted

\* the columns get_dummies hands on as they are
PassThrough ==
    OtherColumns \ ({dummy_columns[i] : i \in Positions(dummy_columns)} \cup {"hd"})

(***************************************************************************)
(* C9: once the numeric coercion of ca has run, no column of X_encoded     *)
(* (and so none of X_train and X_test, which are handed to the trainer)    *)
(* has dtype object, and X_encoded has no column called cp, restecg, slope *)
(* or thal.                                                                *)
(***************************************************************************)
C9_FeatureMatrixNumeric ==
    /\ Past("to_numeric") =>
          /\ \A i \in Positions(X_encoded.cols) :
                dtype(X_encoded, i) \in {"int64", "float64", "uint8"}
          /\ \A c \in {"cp", "restecg", "slope", "thal"} : ~HasCol(X_encoded, c)
    /\ Past("split") =>
          /\ CanFit(X_train) /\ CanFit(X_test)
          /\ X_train.cols = X_encoded.cols

(***************************************************************************)
(* C9, amended: once the numeric coercion of ca has run, X_encoded has no  *)
(* column called cp, restecg, slope or thal, and a column of it has dtype  *)
(* object exactly when it is one of the columns handed on as they are in   *)
(* which the file holds "?"; every other column, ca and the indicator      *)
(* columns included, is int64, float64 or uint8.  X_train and X_test have  *)
(* the columns and the dtypes of X_encoded, so the table handed to the     *)
(* trainer is all numeric exactly when no handed-on column holds "?".      *)
(***************************************************************************)
C9_NumericButStrayPassThrough ==
    /\ Past("to_numeric") =>
          /\ \A i \in Positions(X_encoded.cols) :
                IF X_encoded.cols[i] \in PassThrough /\ Stray(X_encoded.cols[i])
                THEN dtype(X_encoded, i) = "object"
                ELSE dtype(X_encoded, i) \in {"int64", "float64", "uint8"}
          /\ \A c \in {"cp", "restecg", "slope", "thal"} : ~HasCol(X_encoded, c)
    /\ Past("split") =>
          /\ X_train.cols = X_encoded.cols
          /\ X_test.cols = X_encoded.cols
          /\ dtypes(X_train) = dtypes(X_encoded)
          /\ dtypes(X_test) = dtypes(X_encoded)
          /\ CanFit(X_train) <=> \A c \in PassThrough : ~Stray(c)

C9_Witness ==
    /\ pc = "preliminary_fit"
    /\ \E r \in Rows : Field(r, "ca") = "?"
    /\ \E r \in Rows : Field(r, "thal") = "?"
    /\ Stray("oldpeak")
    /\ dtype(X_train, ColPos(X_train, "ca")) = "float64"
    /\ dtype(X_train, ColPos(X_train, "oldpeak")) = "object"
    /\ \A i \in Positions(X_train.cols) :
          X_train.cols[i] # "oldpeak" => dtype(X_train, i) # "object"

(***************************************************************************)
(* C14: when a column other than ca and thal holds "?" in the file, df     *)
(* still holds it there after the missing-value statements, and no         *)
(* classifier is ever fitted.                                              *)
(***************************************************************************)
C14_StraySentinelNeverFitted ==
    \A c \in OtherColumns :
        Stray(c) =>
            /\ df.cols = columns =>
                  \A r \in Rows : Field(r, c) = "?" => Cell(df, r, c) = Sentinel
            /\ ~Fitted

(***************************************************************************)
(* C14, amended: df still holds the "?" after the missing-value            *)
(* statements.  With "?" in hd the script stops at y > 0 (TypeError); with *)
(* "?" in a column that is handed on as it is, it stops at the first fit   *)
(* (ValueError); in both cases nothing is ever fitted.  With "?" only in   *)
(* cp, restecg or slope there is no failure: "?" is one more category, its *)
(* indicator column is c_?, and the classifiers are fitted on that table.  *)
(***************************************************************************)
C14_StraySentinelByColumn ==
    /\ \A c \in OtherColumns :
          (Stray(c) /\ df.cols = columns) =>
              \A r \in Rows : Field(r, c) = "?" => Cell(df, r, c) = Sentinel
    /\ Stray("hd") =>
          /\ ~Fitted
          /\ y_not_zero_index = <<>>
          /\ pc # "ValueError"
          /\ ~Past("y_not_zero")
    /\ (~Stray("hd") /\ \E c \in PassThrough : Stray(c)) =>
          /\ ~Fitted
          /\ pc # "TypeError"
          /\ ~Past("preliminary_fit")
          /\ pc = "ValueError" => X_train # NoTable /\ ~CanFit(X_train)
    /\ (\A c \in PassThrough \cup {"hd"} : ~Stray(c)) =>
          /\ pc \notin {"TypeError", "ValueError"}
          /\ \A c \in {"cp", "restecg", "slope"} :
                (Stray(c) /\ Past("get_dummies")) =>
                    /\ HasCol(X_encoded, c \o "_?")
                    /\ \A r \in Rows :
                          Cell(X_encoded, r, c \o "_?")
                             = UInt8(IF Field(r, c) = "?" THEN 1 ELSE 0)
          /\ pc \in {"preliminary_matrix", "optimized", "optimized_matrix",
                     "first_tree", "importance", "to_graphviz", "done"} =>
                Fitted /\ clf_xgb.fit_index = X_train.index

C14_Witness ==
    /\ pc = "ValueError"
    /\ Stray("age")
    /\ ~Stray("hd")
    /\ Cell(df, 1, "age") = Sentinel
    /\ clf_xgb # <<>> /\ ~clf_xgb.fitted

(***************************************************************************)
(* C15: up to the split, df, X, y and X_encoded carry the index labels     *)
(* 0 .. n-1 in that order, and at every position r the row of each of them *)
(* is made from line r of the file: the cells of df stand for the fields   *)
(* of that line, the cells of X and the handed-on cells of X_encoded are   *)
(* those of row r of df, the indicator that is 1 is the one of the value   *)
(* row r of df has, and element r of y is the diagnosis of row r of df     *)
(* (binarized once the binarization has run).                              *)
(***************************************************************************)
\* the cell is what the field of the file has become
FromField(cell, field) ==
    IF field = "?" THEN cell \in {Sentinel, PyInt(0)}
    ELSE NumValue(cell) = ParseNum(field)

C15_RowsStayAligned ==
    LET labels == [r \in Rows |-> r - 1]
    IN  /\ Past("name_columns") =>
              /\ df.index = labels
              /\ \A r \in Rows : \A i \in Positions(columns) :
                    FromField(df.rows[r][i], file[r][i])
        /\ Past("make_X") =>
              /\ X.index = labels
              /\ \A r \in Rows : \A i \in Positions(X.cols) :
                    X.rows[r][i] = Cell(df, r, X.cols[i])
        /\ Past("make_y") =>
              /\ y.index = labels
              /\ \A r \in Rows :
                    y.values[r] =
                        IF Past("binarize") /\ Cell(df, r, "hd").num > 0
                        THEN Int64(1)
                        ELSE Cell(df, r, "hd")
        /\ Past("get_dummies") =>
              /\ X_encoded.index = labels
              /\ \A r \in Rows :
                    /\ \A c \in PassThrough :
                          Cell(X_encoded, r, c) = Cell(df, r, c)
                    /\ NumValue(Cell(X_encoded, r, "ca"))
                          = NumValue(Cell(df, r, "ca"))
                    /\ \A i \in Positions(dummy_columns) :
                          LET c == dummy_columns[i]
                              name == c \o "_" \o Cell(df, r, c).text
                          IN  /\ HasCol(X_encoded, name)
                              /\ Cell(X_encoded, r, name) = UInt8(1)

C15_Witness ==
    /\ pc = "split"
    /\ Field(1, "hd") # Field(2, "hd")
    /\ Field(2, "hd") # Field(3, "hd")
    /\ Field(1, "cp") # Field(3, "cp")
    /\ Field(1, "ca") # Field(2, "ca")

(***************************************************************************)
(* C16: after the split, the index labels of X_train and of X_test have no *)
(* label in common and together are the labels of X_encoded, each once;    *)
(* each part holds the rows and the targets of its labels; every fitted    *)
(* classifier, the ones that were displayed included, was fitted on the    *)
(* rows of X_train and on no row of X_test; and every confusion matrix was *)
(* computed on the rows of X_test.                                         *)
(***************************************************************************)
\* the values of a sequence
Labels(s) == {s[k] : k \in Positions(s)}

C16_FitsOnTrainingRowsOnly ==
    Past("split") =>
        LET train == Labels(X_train.index)
            test == Labels(X_test.index)
        IN  /\ train \cap test = {}
            /\ train \cup test = Labels(X_encoded.index)
            /\ train # {} /\ test # {}
            /\ Cardinality(train) = Len(X_train.index)
            /\ Cardinality(test) = Len(X_test.index)
            /\ y_train.index = X_train.index
            /\ y_test.index = X_test.index
            /\ \A k \in Positions(X_train.index) :
                  /\ X_train.rows[k] = X_encoded.rows[X_train.index[k] + 1]
                  /\ y_train.values[k] = y.values[X_train.index[k] + 1]
            /\ \A k \in Positions(X_test.index) :
                  /\ X_test.rows[k] = X_encoded.rows[X_test.index[k] + 1]
                  /\ y_test.values[k] = y.values[X_test.index[k] + 1]
            /\ Fitted =>
                  /\ clf_xgb.fit_index = X_train.index
                  /\ Labels(clf_xgb.fit_index) \cap test = {}
            /\ \A i \in Positions(shown) :
                  /\ shown[i].clf.fitted
                  /\ Labels(shown[i].clf.fit_index) = train
                  /\ shown[i].what = "confusion_matrix" =>
                        Labels(shown[i].index) = test

C16_Witness ==
    /\ pc = "done"
    /\ Fitted
    /\ Len(X_test.index) = TestSize(len(X_encoded))
    /\ Len(X_train.index) = len(X_encoded) - TestSize(len(X_encoded))
    /\ \E i \in Positions(shown) :
          shown[i].what = "confusion_matrix" /\ shown[i].clf.n_estimators = 200

====
